---- MODULE Spec2Model ----
(***************************************************************************)
(* Model of the ONNX Resize/Upsample lowering of src/onnx/parse_resize.cpp. *)
(*                                                                         *)
(* The state is the graph under construction (the nodes the builder holds),*)
(* the last call of parse_resize::parse (its attribute map and argument    *)
(* list) and what that call returned or threw.  Floating values are exact  *)
(* rationals <<numerator, denominator>>.                                   *)
(***************************************************************************)
EXTENDS Integers, Sequences, FiniteSets, TLC

VARIABLES graph,   \* the builder's nodes, in insertion order
          call,    \* the attribute map and argument list of the last parse call
          result,  \* outcome of the last parse call
          np,      \* the last calc_neighbor_points call: its inputs and outcome
          gi       \* the last computation of the nearest index vector

vars == <<graph, call, result, np, gi>>

-----------------------------------------------------------------------------
(* Bounds of the explored inputs.                                          *)

MaxRank == 2      \* ranks 1..MaxRank of the data argument of parse
MaxDim == 2       \* dimension lengths 1..MaxDim
MaxBits == 3      \* ranks 1..MaxBits of the tables given to calc_neighbor_points
MaxElements == 2  \* m_elements of the tables given to calc_neighbor_points
MaxInElements == 4   \* elements of the data argument in SpecLower
MaxOutElements == 6  \* elements of a sizes argument's output in SpecLower
MaxNpInElements == 8 \* elements of the shape given to calc_neighbor_points
MaxScaledElements == 16 \* elements of the output of a scales argument in SpecLower

(* std::numeric_limits<std::size_t>::digits *)
SizeTDigits == 64

-----------------------------------------------------------------------------
(* Exact rationals.                                                        *)

RECURSIVE Gcd(_, _)
Gcd(a, b) == IF b = 0 THEN a ELSE Gcd(b, a % b)

Abs(x) == IF x < 0 THEN -x ELSE x

Rat(n, d) ==
    LET g == Gcd(Abs(n), Abs(d))
        s == IF d < 0 THEN -1 ELSE 1
    IN  <<s * (n \div g), s * (d \div g)>>

RInt(n) == <<n, 1>>
RAdd(a, b) == Rat(a[1] * b[2] + b[1] * a[2], a[2] * b[2])
RSub(a, b) == Rat(a[1] * b[2] - b[1] * a[2], a[2] * b[2])
RMul(a, b) == Rat(a[1] * b[1], a[2] * b[2])
RDiv(a, b) == Rat(a[1] * b[2], a[2] * b[1])
RLess(a, b) == a[1] * b[2] < b[1] * a[2]
RLeq(a, b) == a[1] * b[2] <= b[1] * a[2]
RMin(a, b) == IF RLess(b, a) THEN b ELSE a
RMax(a, b) == IF RLess(a, b) THEN b ELSE a
RFloor(a) == a[1] \div a[2]
RCeil(a) == -((-a[1]) \div a[2])
RZero == RInt(0)
ROne == RInt(1)
RHalf == Rat(1, 2)

-----------------------------------------------------------------------------
(* Sequences.                                                              *)

RECURSIVE SumSeq(_)
SumSeq(s) == IF s = <<>> THEN 0 ELSE Head(s) + SumSeq(Tail(s))

RECURSIVE ProdSeq(_)
ProdSeq(s) == IF s = <<>> THEN 1 ELSE Head(s) * ProdSeq(Tail(s))

RECURSIVE Pow2(_)
Pow2(n) == IF n = 0 THEN 1 ELSE 2 * Pow2(n - 1)

RECURSIVE Concat(_)
Concat(ss) == IF ss = <<>> THEN <<>> ELSE Head(ss) \o Concat(Tail(ss))

Range(s) == {s[i] : i \in DOMAIN s}

-----------------------------------------------------------------------------
(* migraphx::shape (standard, row-major).                                  *)

(* shape::elements() *)
Elements(lens) == ProdSeq(lens)

(* stride of dimension d of a standard shape *)
Stride(lens, d) == ProdSeq(SubSeq(lens, d + 1, Len(lens)))

(* shape::multi(flat index), as shape_for_each hands it to its callback *)
Multi(lens, i) == [d \in 1..Len(lens) |-> (i \div Stride(lens, d)) % lens[d]]

(* 2^16: an int has 32 bits; a value modulo 2^32 is kept as its two 16-bit
   halves <<high, low>> *)
Half == 65536

(* shape::index(multi-index) modulo 2^32, multi-indices 0-based: the sum of
   idx[d] * stride[d] over dimensions 1..d, by Horner's rule; lengths and
   indices are at most Half \div 2 *)
RECURSIVE Index(_, _, _)
Index(lens, idx, d) ==
    IF d = 0 THEN <<0, 0>>
    ELSE LET acc == Index(lens, idx, d - 1)
             low == acc[2] * lens[d] + idx[d]
             high == acc[1] * lens[d] + low \div Half
         IN  <<high % Half, low % Half>>

(* a std::size_t stored into an int (the elements of std::vector<int>): the
   low 32 bits, read as a two's complement number *)
ToInt(x) ==
    IF x[1] < Half \div 2 THEN x[1] * Half + x[2] ELSE (x[1] - Half) * Half + x[2]

-----------------------------------------------------------------------------
(* Index-mapping policies of op::resize.                                   *)

(* op::resize::get_original_idx_op(mode)(l_in, l_out, idx, scale) *)
idx_op(mode, l_in, l_out, idx, scale) ==
    CASE mode = "half_pixel" ->
            RSub(RDiv(RAdd(RInt(idx), RHalf), scale), RHalf)
      [] mode = "asymmetric" -> RDiv(RInt(idx), scale)
      [] mode = "align_corners" ->
            IF l_out = 1 THEN RZero ELSE Rat(idx * (l_in - 1), l_out - 1)
      [] OTHER -> RZero

(* the names get_original_idx_op knows; any other name makes it throw *)
KnownCoordModes == {"half_pixel", "asymmetric", "align_corners"}

(* op::resize::get_nearest_op(mode)(d_in, val): clamps to [0, d_in - 1] *)
nearest_op(mode, d_in, val) ==
    LET v == RMax(RZero, RMin(RInt(d_in - 1), val))
    IN  CASE mode = "floor" -> RFloor(v)
          [] mode = "ceil" -> RCeil(v)
          [] mode = "round_prefer_floor" -> RCeil(RSub(v, RHalf))
          [] mode = "round_prefer_ceil" -> RFloor(RAdd(v, RHalf))
          [] OTHER -> 0

(* the names get_nearest_op knows *)
KnownNearestModes == {"floor", "ceil", "round_prefer_floor", "round_prefer_ceil"}

-----------------------------------------------------------------------------
(* Instructions of the graph.  An instruction_ref is an index into graph.  *)

MkNode(name, inputs, sparams, iparams, type, lens, dyn, evaluable, idata, fdata) ==
    [name |-> name, inputs |-> inputs, sparams |-> sparams, iparams |-> iparams,
     type |-> type, lens |-> lens, dyn |-> dyn, evaluable |-> evaluable,
     idata |-> idata, fdata |-> fdata]

NoDyn(lens) == [d \in 1..Len(lens) |-> FALSE]

(* shape::dynamic() *)
IsDynamic(node) == \E d \in DOMAIN node.dyn : node.dyn[d]

(* shape::to_static(x).lens(): every non-fixed dimension becomes x *)
ToStaticLens(node, x) ==
    [d \in 1..Len(node.lens) |-> IF node.dyn[d] THEN x ELSE node.lens[d]]

(* the output lengths the operators used here compute for their result *)
ComputeShape(g, name, iparams, inputs) ==
    CASE name = "reshape" -> iparams
      [] name = "gather" -> g[inputs[2]].lens \o Tail(g[inputs[1]].lens)
      [] name = "slice" ->
            <<iparams[3] - iparams[2]>> \o Tail(g[inputs[1]].lens)
      [] name \in {"sub", "mul", "add"} -> g[inputs[1]].lens
      [] OTHER -> <<>>

(* node_info::add_instruction(op, args...): appends; the new ref is Len *)
add_instruction(g, name, sparams, iparams, inputs) ==
    Append(g, MkNode(name, inputs, sparams, iparams, g[inputs[1]].type,
                     ComputeShape(g, name, iparams, inputs),
                     NoDyn(ComputeShape(g, name, iparams, inputs)),
                     FALSE, <<>>, <<>>))

(* node_info::add_literal(literal(shape, data)) *)
add_literal(g, type, lens, idata, fdata) ==
    Append(g, MkNode("@literal", <<>>, <<>>, <<>>, type, lens, NoDyn(lens),
                     TRUE, idata, fdata))

-----------------------------------------------------------------------------
(* Attribute map: each attribute is <<>> when absent and <<value>> when    *)
(* present.                                                                *)

Ok(v) == [err |-> "", val |-> v]
Throw(kind) == [err |-> kind, val |-> <<>>]

(* get_coord_trans_mode without the test of lines 129-132 *)
get_coord_trans_mode_unchecked(attr) ==
    IF attr.coordinate_transformation_mode # <<>>
    THEN Ok(attr.coordinate_transformation_mode[1])
    ELSE Ok("half_pixel")

get_coord_trans_mode(attr) ==
    IF attr.coordinate_transformation_mode # <<>>
    THEN IF attr.coordinate_transformation_mode[1] = "tf_crop_and_resize"
         THEN Throw("UnsupportedCoordinateTransformMode")
         ELSE Ok(attr.coordinate_transformation_mode[1])
    ELSE Ok("half_pixel")

get_mode(attr) ==
    IF attr.mode # <<>>
    THEN IF attr.mode[1] # "nearest" /\ attr.mode[1] # "linear"
         THEN Throw("UnsupportedInterpolationMode")
         ELSE Ok(attr.mode[1])
    ELSE Ok("nearest")

get_nearest_mode(attr) ==
    IF attr.nearest_mode # <<>> THEN attr.nearest_mode[1] ELSE "round_prefer_floor"

get_scales(attr) ==
    IF attr.scales # <<>> THEN attr.scales[1] ELSE <<>>

-----------------------------------------------------------------------------
(* calc_neighbor_points(vvv_ind, in_s).  vvv_ind[d][c][e]: dimension d in  *)
(* 1..n_bits, corner c in 1..2 (the code's 0..1), output element e in      *)
(* 1..m_elements.                                                          *)

(* std::bitset::operator[]: position 0 is the least significant bit *)
BitOf(val, bit) == (val \div Pow2(bit)) % 2

(* the inner transform reading the rank bits most significant first *)
CornerIndices_msb(vvv_ind, val, e) ==
    [d \in 1..Len(vvv_ind) |-> vvv_ind[d][BitOf(val, Len(vvv_ind) - d) + 1][e]]

(* the inner transform: dimension d (the code's bit d - 1) picks
   vv_ind[bits_val[bit]][i_element] *)
CornerIndices(vvv_ind, val, e) ==
    [d \in 1..Len(vvv_ind) |-> vvv_ind[d][BitOf(val, d - 1) + 1][e]]

calc_neighbor_points(vvv_ind, in_lens) ==
    LET n_bits == Len(vvv_ind)
        m_elements == Len(vvv_ind[1][1])
    IN  IF n_bits >= SizeTDigits
        THEN Throw("DimensionOverflow")
        ELSE Ok(Concat([v \in 1..Pow2(n_bits) |->
                   [e \in 1..m_elements |->
                      ToInt(Index(in_lens, CornerIndices(vvv_ind, v - 1, e),
                                  n_bits))]]))

-----------------------------------------------------------------------------
(* parse_args: scans the argument list for the scales or sizes input.      *)
(* nonstatic is the function's return value; vec_scale, out_lens and r_arg *)
(* are its out-parameters.                                                 *)

ArgsResult(err, nonstatic, vec_scale, out_lens, r_arg) ==
    [err |-> err, nonstatic |-> nonstatic, vec_scale |-> vec_scale,
     out_lens |-> out_lens, r_arg |-> r_arg]

(* the loop body's two "continue" conditions *)
SkippedArg(g, args, k) ==
    \/ g[args[k]].name = "undefined"
    \/ args[k] = args[1]
    \/ g[args[k]].lens = <<>>

(* parse_arg without the rank test of lines 210-214: sizes of the wrong
   count are taken as a non-static input *)
parse_arg_unchecked(g, arg_ref, in_lens, vec_scale, out_lens) ==
    LET arg == g[arg_ref]
    IN  IF arg.type = "int64_type"
        THEN IF ~arg.evaluable \/ Len(arg.idata) # Len(in_lens)
             THEN ArgsResult("", TRUE, vec_scale, out_lens, arg_ref)
             ELSE ArgsResult("", FALSE,
                             [i \in 1..Len(in_lens) |->
                                 Rat(arg.idata[i], in_lens[i])],
                             arg.idata, arg_ref)
        ELSE IF arg.lens[1] = Len(in_lens)
             THEN IF ~arg.evaluable
                  THEN ArgsResult("", TRUE, vec_scale, out_lens, arg_ref)
                  ELSE ArgsResult("", FALSE, arg.fdata, out_lens, arg_ref)
             ELSE ArgsResult("", FALSE, vec_scale, out_lens, arg_ref)

(* the body of the loop for the first argument that is not skipped *)
parse_arg(g, arg_ref, in_lens, vec_scale, out_lens) ==
    LET arg == g[arg_ref]
    IN  IF arg.type = "int64_type"
        THEN IF ~arg.evaluable
             THEN ArgsResult("", TRUE, vec_scale, out_lens, arg_ref)
             ELSE IF Len(arg.idata) # Len(in_lens)
                  THEN ArgsResult("OutputRankMismatch", FALSE, vec_scale,
                                  arg.idata, arg_ref)
                  ELSE ArgsResult("", FALSE,
                                  [i \in 1..Len(in_lens) |->
                                      Rat(arg.idata[i], in_lens[i])],
                                  arg.idata, arg_ref)
        ELSE IF arg.lens[1] = Len(in_lens)
             THEN IF ~arg.evaluable
                  THEN ArgsResult("", TRUE, vec_scale, out_lens, arg_ref)
                  ELSE ArgsResult("", FALSE, arg.fdata, out_lens, arg_ref)
             ELSE ArgsResult("", FALSE, vec_scale, out_lens, arg_ref)

(* parse_args without the throw of line 239: falls off the loop and
   reports a non-static input *)
RECURSIVE parse_args_from_nothrow(_, _, _, _, _, _, _)
parse_args_from_nothrow(k, g, args, in_lens, vec_scale, out_lens, r_arg) ==
    IF k > Len(args)
    THEN ArgsResult("", TRUE, vec_scale, out_lens, r_arg)
    ELSE IF SkippedArg(g, args, k)
         THEN parse_args_from_nothrow(k + 1, g, args, in_lens, vec_scale,
                                      out_lens, r_arg)
         ELSE parse_arg(g, args[k], in_lens, vec_scale, out_lens)

RECURSIVE parse_args_from(_, _, _, _, _, _, _)
parse_args_from(k, g, args, in_lens, vec_scale, out_lens, r_arg) ==
    IF k > Len(args)
    THEN ArgsResult("MissingScaleOrSizeInput", FALSE, vec_scale, out_lens, r_arg)
    ELSE IF SkippedArg(g, args, k)
         THEN parse_args_from(k + 1, g, args, in_lens, vec_scale, out_lens, r_arg)
         ELSE parse_arg(g, args[k], in_lens, vec_scale, out_lens)

parse_args(g, args, in_lens, vec_scale, out_lens, r_arg) ==
    parse_args_from(1, g, args, in_lens, vec_scale, out_lens, r_arg)

-----------------------------------------------------------------------------
(* parse_resize::parse.  A run ends with [err, graph, ret]: err is "" and  *)
(* ret the returned instruction_ref, or err is the kind of the exception   *)
(* and graph is the builder as the exception left it.                      *)

(* ub: the call evaluated an expression whose behaviour is undefined *)
Done(g, ret) == [err |-> "", graph |-> g, ret |-> ret, ub |-> FALSE]
Fail(g, kind) == [err |-> kind, graph |-> g, ret |-> 0, ub |-> FALSE]

(* lines 311-355: input shape, scales attribute or parse_args, rank check
   and output lengths *)
Resolve(g, attr, args) ==
    LET in_lens == ToStaticLens(g[args[1]], 1)
        zeros == [d \in 1..Len(in_lens) |-> 0]
        attr_scale == get_scales(attr)
        pa == IF attr_scale # <<>>
              THEN ArgsResult("", FALSE, attr_scale, zeros, args[1])
              ELSE parse_args(g, args, in_lens, attr_scale, zeros, args[1])
        is_constant_scale_input == ~pa.nonstatic
        out_lens == IF \A d \in DOMAIN pa.out_lens : pa.out_lens[d] = 0
                    THEN [d \in 1..Len(in_lens) |->
                            RFloor(RMul(RInt(in_lens[d]), pa.vec_scale[d]))]
                    ELSE pa.out_lens
    IN  IF pa.err # ""
        THEN [err |-> pa.err]
        ELSE IF is_constant_scale_input /\ Len(in_lens) # Len(pa.vec_scale)
        THEN [err |-> "RankMismatch"]
        ELSE [err |-> "", in_lens |-> in_lens, vec_scale |-> pa.vec_scale,
              out_lens |-> IF is_constant_scale_input THEN out_lens ELSE pa.out_lens,
              is_constant_scale_input |-> is_constant_scale_input,
              scales_sizes_arg |-> pa.r_arg]

(* lines 260-277 of make_gather_instruction: the vector ind, one int per
   output element *)
gather_indices(attr, in_lens, out_lens, vec_scale) ==
    LET nearest_mode == get_nearest_mode(attr)
        coord_trans_mode == get_coord_trans_mode(attr).val
        out_elements == Elements(out_lens)
    IN  [o \in 1..out_elements |->
           LET out_idx_v == Multi(out_lens, o - 1)
           IN  ToInt(Index(in_lens,
                 [ii \in 1..Len(in_lens) |->
                    nearest_op(nearest_mode, in_lens[ii],
                       idx_op(coord_trans_mode, in_lens[ii], out_lens[ii],
                              out_idx_v[ii], vec_scale[ii]))],
                 Len(in_lens)))]

(* make_gather_instruction: reshape, index literal and gather *)
make_gather_instruction(g, attr, in_lens, out_lens, vec_scale, args_0) ==
    LET nearest_mode == get_nearest_mode(attr)
        ind == gather_indices(attr, in_lens, out_lens, vec_scale)
        g1 == add_instruction(g, "reshape", <<>>, <<Elements(in_lens)>>, <<args_0>>)
        rsp == Len(g1)
        g2 == add_literal(g1, "int32_type", out_lens, ind, <<>>)
        ins_ind == Len(g2)
        g3 == add_instruction(g2, "gather", <<>>, <<0>>, <<rsp, ins_ind>>)
    IN  IF nearest_mode \notin KnownNearestModes
        THEN Fail(g, "UnknownNearestMode")
        ELSE Done(g3, Len(g3))

(* delta_data: dim_delta inserted at the front n times *)
RECURSIVE Tile(_, _)
Tile(s, n) == IF n = 0 THEN <<>> ELSE s \o Tile(s, n - 1)

(* dim_lens[0] / out_lens[0] of line 434 on std::size_t: with a zero
   divisor the behaviour is undefined; the value here is that of the builds
   whose divide instruction does not trap (0), the trap is an outcome of
   Parse *)
Quotient(a, b) == IF b = 0 THEN 0 ELSE a \div b

(* line 434 is evaluated with a zero divisor: the loop is entered and the
   first output length is 0 *)
DividesByZero(out_lens) == Len(out_lens) > 0 /\ out_lens[1] = 0

(* one iteration of the blend loop, lines 431-452 *)
BlendStep(g, data, dim_lens, out_lens, dim_delta) ==
    LET delta_data == Tile(dim_delta, Quotient(dim_lens[1], out_lens[1]))
        g1 == add_literal(g, "float_type", dim_lens, <<>>, delta_data)
        ins_delta == Len(g1)
        slc_stride == dim_lens[1]
        g2 == add_instruction(g1, "slice", <<>>, <<0, 0, slc_stride>>, <<data>>)
        low == Len(g2)
        g3 == add_instruction(g2, "slice", <<>>, <<0, slc_stride, 2 * slc_stride>>,
                              <<data>>)
        hi == Len(g3)
        g4 == add_instruction(g3, "sub", <<>>, <<>>, <<hi, low>>)
        diff == Len(g4)
        g5 == add_instruction(g4, "mul", <<>>, <<>>, <<diff, ins_delta>>)
        ddf == Len(g5)
        g6 == add_instruction(g5, "add", <<>>, <<>>, <<ddf, low>>)
    IN  [graph |-> g6, data |-> Len(g6),
         dim_lens |-> [dim_lens EXCEPT ![1] = dim_lens[1] \div 2]]

(* the blend loop taking the deltas first dimension first *)
RECURSIVE BlendLoop_forward(_, _, _, _, _, _)
BlendLoop_forward(i, g, data, dim_lens, out_lens, delta) ==
    LET n_dim == Len(out_lens)
        st == BlendStep(g, data, dim_lens, out_lens, delta[i + 1])
    IN  IF i >= n_dim
        THEN [Done(g, data) EXCEPT !.ub = DividesByZero(out_lens)]
        ELSE BlendLoop_forward(i + 1, st.graph, st.data, st.dim_lens, out_lens,
                               delta)

(* the blend loop, lines 429-453: iteration i uses delta[n_dim - i - 1] *)
RECURSIVE BlendLoop(_, _, _, _, _, _)
BlendLoop(i, g, data, dim_lens, out_lens, delta) ==
    LET n_dim == Len(out_lens)
        st == BlendStep(g, data, dim_lens, out_lens, delta[n_dim - i])
    IN  IF i >= n_dim
        THEN [Done(g, data) EXCEPT !.ub = DividesByZero(out_lens)]
        ELSE BlendLoop(i + 1, st.graph, st.data, st.dim_lens, out_lens, delta)

(* lines 409-417: the continuous source coordinate of output element o
   (1-based) in dimension ii *)
IdxVal(coord_trans_mode, in_lens, out_lens, vec_scale, ii, o) ==
    idx_op(coord_trans_mode, in_lens[ii], out_lens[ii],
           Multi(out_lens, o - 1)[ii], vec_scale[ii])

(* vvv_ind of lines 405-417: floor and ceil source index per dimension *)
NeighborTable(coord_trans_mode, in_lens, out_lens, vec_scale) ==
    [ii \in 1..Len(out_lens) |->
       <<[o \in 1..Elements(out_lens) |->
            nearest_op("floor", in_lens[ii],
                       IdxVal(coord_trans_mode, in_lens, out_lens, vec_scale, ii, o))],
         [o \in 1..Elements(out_lens) |->
            nearest_op("ceil", in_lens[ii],
                       IdxVal(coord_trans_mode, in_lens, out_lens, vec_scale, ii, o))]>>]

(* delta taken from the ceil index: idx_val - vvv_ind[ii][1][out_idx] *)
DeltaTable_ceil(coord_trans_mode, in_lens, out_lens, vec_scale) ==
    [ii \in 1..Len(out_lens) |->
       [o \in 1..Elements(out_lens) |->
          LET idx_val == IdxVal(coord_trans_mode, in_lens, out_lens, vec_scale, ii, o)
          IN  RSub(idx_val, RInt(nearest_op("ceil", in_lens[ii], idx_val)))]]

(* delta of lines 407-417: idx_val - vvv_ind[ii][0][out_idx] *)
DeltaTable(coord_trans_mode, in_lens, out_lens, vec_scale) ==
    [ii \in 1..Len(out_lens) |->
       [o \in 1..Elements(out_lens) |->
          LET idx_val == IdxVal(coord_trans_mode, in_lens, out_lens, vec_scale, ii, o)
          IN  RSub(idx_val, RInt(nearest_op("floor", in_lens[ii], idx_val)))]]

(* lines 393-455: the linear lowering once the scales are constant *)
LowerLinear(g, coord_trans_mode, in_lens, out_lens, vec_scale, args_0) ==
    LET g1 == add_instruction(g, "reshape", <<>>, <<Elements(in_lens)>>, <<args_0>>)
        rsp == Len(g1)
        n_dim == Len(out_lens)
        vvv_ind == NeighborTable(coord_trans_mode, in_lens, out_lens, vec_scale)
        delta == DeltaTable(coord_trans_mode, in_lens, out_lens, vec_scale)
        ind == calc_neighbor_points(vvv_ind, in_lens)
        ind_lens == [out_lens EXCEPT ![1] = out_lens[1] * Pow2(n_dim)]
        g2 == add_literal(g1, "int32_type", ind_lens, ind.val, <<>>)
        ins_ind == Len(g2)
        g3 == add_instruction(g2, "gather", <<>>, <<0>>, <<rsp, ins_ind>>)
        dim_lens == [out_lens EXCEPT ![1] = out_lens[1] * Pow2(n_dim - 1)]
    IN  IF ind.err # ""
        THEN Fail(g1, ind.err)
        ELSE BlendLoop(0, g3, Len(g3), dim_lens, out_lens, delta)

(* lines 357-456: the choice of the lowering *)
Lower(g, attr, args, coord_trans_mode, mode, nearest_mode, r) ==
    IF mode = "nearest"
    THEN IF IsDynamic(g[args[1]]) \/ ~r.is_constant_scale_input
         THEN LET g1 == add_instruction(g, "resize",
                           <<nearest_mode, coord_trans_mode>>, <<>>,
                           <<args[1], r.scales_sizes_arg>>)
              IN  Done(g1, Len(g1))
         ELSE make_gather_instruction(g, attr, r.in_lens, r.out_lens,
                                      r.vec_scale, args[1])
    ELSE IF ~r.is_constant_scale_input
         THEN Fail(g, "UnsupportedDynamicLinear")
         ELSE LowerLinear(g, coord_trans_mode, r.in_lens, r.out_lens,
                          r.vec_scale, args[1])

(* the test of line 306 against the wrong value *)
ExcludeOutside_zero(attr) ==
    attr.exclude_outside # <<>> /\ attr.exclude_outside[1] = 0

(* lines 304-309 *)
ExcludeOutside(attr) ==
    attr.exclude_outside # <<>> /\ attr.exclude_outside[1] = 1

parse(g, attr, args) ==
    LET ctm == get_coord_trans_mode(attr)
        md == get_mode(attr)
        nearest_mode == get_nearest_mode(attr)
        r == Resolve(g, attr, args)
    IN  IF ctm.err # "" THEN Fail(g, ctm.err)
        ELSE IF md.err # "" THEN Fail(g, md.err)
        ELSE IF ctm.val \notin KnownCoordModes
        THEN Fail(g, "UnknownCoordinateTransformMode")
        ELSE IF ExcludeOutside(attr) THEN Fail(g, "UnsupportedExcludeOutside")
        ELSE IF r.err # "" THEN Fail(g, r.err)
        ELSE Lower(g, attr, args, ctm.val, md.val, nearest_mode, r)

-----------------------------------------------------------------------------
(* The calls explored.                                                     *)

Uniform(r, v) == [i \in 1..r |-> v]

(* <<1, ..., 1, v>>: only the last dimension is resized *)
LastOnly(r, one, v) == [i \in 1..r |-> IF i = r THEN v ELSE one]

(* the data argument: a parameter; a dimension of length 0 stands for a
   dynamic dimension *)
DataNode(dims) ==
    MkNode("@param", <<>>, <<>>, <<>>, "float_type", dims,
           [d \in 1..Len(dims) |-> dims[d] = 0], FALSE, <<>>, <<>>)

(* an unset optional input: the parser's "undefined" placeholder *)
UndefinedNode ==
    MkNode("undefined", <<>>, <<>>, <<>>, "float_type", <<>>, <<>>, FALSE, <<>>, <<>>)

(* an input whose shape has no dimensions *)
EmptyNode ==
    MkNode("@literal", <<>>, <<>>, <<>>, "float_type", <<>>, <<>>, TRUE, <<>>, <<>>)

(* a "sizes" input: a literal when evaluable, else a parameter *)
SizesNode(vec, evaluable) ==
    MkNode(IF evaluable THEN "@literal" ELSE "@param", <<>>, <<>>, <<>>,
           "int64_type", <<Len(vec)>>, <<FALSE>>, evaluable,
           IF evaluable THEN vec ELSE <<>>, <<>>)

(* a "scales" input *)
ScalesNode(vec, evaluable) ==
    MkNode(IF evaluable THEN "@literal" ELSE "@param", <<>>, <<>>, <<>>,
           "float_type", <<Len(vec)>>, <<FALSE>>, evaluable,
           <<>>, IF evaluable THEN vec ELSE <<>>)

ScaleVals == {ROne, RInt(2)}

(* the ranks of the data argument: the small ones, and the smallest rank
   calc_neighbor_points refuses *)
Ranks == (1..MaxRank) \cup {SizeTDigits}

(* the shapes of the data argument of Spec: all lengths MaxDim, with no
   dimension, the first dimension or every dimension dynamic; the refused
   rank has all lengths 1 *)
DataShapes(r) ==
    IF r <= MaxRank
    THEN {Uniform(r, MaxDim), [Uniform(r, MaxDim) EXCEPT ![1] = 0], Uniform(r, 0)}
    ELSE {Uniform(r, 1), Uniform(r, 0)}

SizeVecs(r) ==
    IF r <= MaxRank THEN {Uniform(r, v) : v \in 1..MaxDim} ELSE {Uniform(r, 1)}

ScaleVecs(r) ==
    IF r <= MaxRank THEN {Uniform(r, ROne), LastOnly(r, ROne, RInt(2))}
    ELSE {Uniform(r, ROne)}

(* the further arguments a call on a rank-r input may name *)
ArgNodes(r) ==
    {UndefinedNode, EmptyNode}
    \cup {SizesNode(v, TRUE) : v \in SizeVecs(r) \cup {Uniform(r + 1, 1)}}
    \cup {SizesNode(Uniform(r, 1), FALSE)}
    \cup {ScalesNode(v, TRUE) : v \in ScaleVecs(r) \cup {Uniform(r + 1, ROne)}}
    \cup {ScalesNode(Uniform(r, ROne), FALSE)}

StringAttr(vals) == {<<>>} \cup {<<v>> : v \in vals}

AllAttrs(r) ==
    [coordinate_transformation_mode :
        StringAttr({"asymmetric", "tf_crop_and_resize"}),
     mode : StringAttr({"nearest", "linear", "cubic"}),
     nearest_mode : StringAttr({"floor"}),
     exclude_outside : {<<>>, <<0>>, <<1>>},
     scales : {<<>>, <<<<>>>>}
              \cup {<<v>> : v \in ScaleVecs(r) \cup {Uniform(r + 1, ROne)}}]

(* only mode and scales are set: the calls explored with two further
   arguments (on the small ranks) *)
PlainAttr(a) ==
    /\ a.coordinate_transformation_mode = <<>>
    /\ a.nearest_mode = <<>>
    /\ a.exclude_outside = <<>>
    /\ a.mode \in {<<>>, <<"linear">>}

(* the refused rank is explored with plain attributes only *)
Attrs(r) == IF r <= MaxRank THEN AllAttrs(r) ELSE {a \in AllAttrs(r) : PlainAttr(a)}

(* the state before a call: the graph holds the call's arguments, args[1]
   is the data argument *)
CallOn(dims, a, extra) ==
    /\ graph = <<DataNode(dims)>> \o extra
    /\ call = [attr |-> a, args |-> [i \in 1..(1 + Len(extra)) |-> i]]

NoResult == [status |-> "none", err |-> "", ret |-> 0, before |-> 0]
NoNp == [status |-> "none", vvv_ind |-> <<>>, in_lens |-> <<>>, err |-> "",
         vec_ind |-> <<>>]
NoGi == [status |-> "none", attr |-> <<>>, in_lens |-> <<>>, out_lens |-> <<>>,
         vec_scale |-> <<>>, ind |-> <<>>]

Init ==
    /\ \E r \in Ranks : \E dims \in DataShapes(r) : \E a \in Attrs(r) :
          \/ CallOn(dims, a, <<>>)
          \/ \E x \in ArgNodes(r) : CallOn(dims, a, <<x>>)
          \/ /\ PlainAttr(a) /\ r <= MaxRank
             /\ \E x \in ArgNodes(r), y \in ArgNodes(r) : CallOn(dims, a, <<x, y>>)
    /\ result = NoResult
    /\ np = NoNp
    /\ gi = NoGi

(* what a call that divided by zero at line 434 can do: the divide
   instruction traps and the process is killed inside the first iteration,
   or it yields 0 and the call goes on *)
DivisionOutcomes(run) == IF run.ub THEN {"trap", "zero"} ELSE {"defined"}

(* the nodes the builder holds when the first iteration traps: reshape,
   index literal and gather, lines 398-425 *)
BeforeLoop == 3

(* one call of parse_resize::parse on the current graph *)
Parse ==
    /\ result.status = "none"
    /\ call.args # <<>>
    /\ LET run == parse(graph, call.attr, call.args)
       IN  \E outcome \in DivisionOutcomes(run) :
              IF outcome = "trap"
              THEN /\ graph' = SubSeq(run.graph, 1, Len(graph) + BeforeLoop)
                   /\ result' = [status |-> "crashed", err |-> "", ret |-> 0,
                                 before |-> Len(graph)]
              ELSE /\ graph' = run.graph
                   /\ result' = [status |-> IF run.err = "" THEN "returned"
                                                            ELSE "threw",
                                 err |-> run.err, ret |-> run.ret,
                                 before |-> Len(graph)]
    /\ UNCHANGED <<call, np, gi>>

-----------------------------------------------------------------------------
(* calc_neighbor_points on its own: tables that need not come from parse.  *)

(* a table over in_lens with m_elements columns: column 1 is `first`
   (first[d][c] in 0..in_lens[d]-1), column e is column 1 moved on by e - 1 *)
TableOf(in_lens, first, m_elements) ==
    [d \in 1..Len(in_lens) |->
       [c \in 1..2 |->
          [e \in 1..m_elements |-> (first[d][c] + (e - 1)) % in_lens[d]]]]

FirstColumns(in_lens) ==
    [1..Len(in_lens) -> [1..2 -> 0..(MaxDim - 1)]]

(* shapes of 2^31 elements and more *)
WideShapes == {<<Half \div 2, Half \div 2, k>> : k \in 2..4}

(* first columns holding the first or the last index of each dimension *)
WideColumns(in_lens) ==
    {[d \in 1..Len(in_lens) |->
        [c \in 1..2 |-> IF last[d][c] THEN in_lens[d] - 1 ELSE 0]] :
        last \in [1..Len(in_lens) -> [1..2 -> BOOLEAN]]}

InitNeighbor ==
    /\ graph = <<>>
    /\ call = [attr |-> <<>>, args |-> <<>>]
    /\ result = NoResult
    /\ gi = NoGi
    /\ \/ \E r \in 1..MaxBits :
            \E in_lens \in {l \in [1..r -> 1..MaxDim] :
                               Elements(l) <= MaxNpInElements} :
            \E first \in FirstColumns(in_lens) : \E m \in 1..MaxElements :
               /\ \A d \in 1..r : \A c \in 1..2 : first[d][c] < in_lens[d]
               /\ np = [NoNp EXCEPT !.vvv_ind = TableOf(in_lens, first, m),
                                    !.in_lens = in_lens]
       \/ \E in_lens \in WideShapes : \E first \in WideColumns(in_lens) :
            \E m \in 1..MaxElements :
               np = [NoNp EXCEPT !.vvv_ind = TableOf(in_lens, first, m),
                                 !.in_lens = in_lens]
       \/ \E r \in {SizeTDigits, SizeTDigits + 1} : \E m \in 1..MaxElements :
            np = [NoNp EXCEPT
                    !.vvv_ind = TableOf(Uniform(r, 1), Uniform(r, <<0, 0>>), m),
                    !.in_lens = Uniform(r, 1)]

(* one call of calc_neighbor_points *)
NeighborPoints ==
    /\ np.status = "none"
    /\ np.vvv_ind # <<>>
    /\ LET run == calc_neighbor_points(np.vvv_ind, np.in_lens)
       IN  np' = [np EXCEPT !.status = IF run.err = "" THEN "returned" ELSE "threw",
                            !.err = run.err, !.vec_ind = run.val]
    /\ UNCHANGED <<graph, call, result, gi>>

NextNeighbor == NeighborPoints

SpecNeighbor == InitNeighbor /\ [][NextNeighbor]_vars

-----------------------------------------------------------------------------
(* The calls of SpecLower: static shapes of at most MaxInElements        *)
(* elements, with a scale vector over ScaleVals giving at most             *)
(* MaxScaledElements output elements, or a sizes vector of at most         *)
(* MaxOutElements elements, given as a literal argument.                   *)

(* the vectors of r lengths >= 1 whose product is at most n *)
RECURSIVE LensUpTo(_, _)
LensUpTo(r, n) ==
    IF r = 0 THEN {<<>>}
    ELSE UNION {{<<k>> \o t : t \in LensUpTo(r - 1, n \div k)} : k \in 1..n}

LowerAttrs ==
    {a \in [coordinate_transformation_mode :
               StringAttr({"asymmetric", "align_corners"}),
            mode : {<<>>, <<"linear">>},
            nearest_mode : StringAttr({"floor", "ceil", "round_prefer_ceil"}),
            exclude_outside : {<<>>},
            scales : {<<>>}] :
        a.mode = <<"linear">> => a.nearest_mode = <<>>}

(* output lengths of no element: one length of a small shape set to 0 *)
EmptyLens(r) ==
    {[v EXCEPT ![d] = 0] : v \in LensUpTo(r, MaxDim), d \in 1..r}

LowerArgs(dims) ==
    {ScalesNode(v, TRUE) :
        v \in {s \in [1..Len(dims) -> ScaleVals] :
                 Elements([d \in 1..Len(dims) |-> RFloor(RMul(RInt(dims[d]), s[d]))])
                     <= MaxScaledElements}}
    \cup {SizesNode(v, TRUE) : v \in LensUpTo(Len(dims), MaxOutElements)}
    \cup {SizesNode(v, TRUE) : v \in EmptyLens(Len(dims))}

InitLower ==
    /\ \E r \in 1..MaxRank : \E dims \in LensUpTo(r, MaxInElements) :
          \E a \in LowerAttrs : \E x \in LowerArgs(dims) : CallOn(dims, a, <<x>>)
    /\ result = NoResult
    /\ np = NoNp
    /\ gi = NoGi

Next == Parse

Spec == Init /\ [][Next]_vars

SpecLower == InitLower /\ [][Next]_vars

-----------------------------------------------------------------------------
(* The index vector of make_gather_instruction on its own, on the shapes   *)
(* of 2^31 elements and more, beside the calls of SpecLower.               *)

(* output lengths asked for by a sizes input *)
WideOutLens == {<<a, b, 1>> : a \in 1..2, b \in 1..2}

InitGather ==
    \/ InitLower
    \/ /\ graph = <<>>
       /\ call = [attr |-> <<>>, args |-> <<>>]
       /\ result = NoResult
       /\ np = NoNp
       /\ \E in_lens \in WideShapes : \E out_lens \in WideOutLens :
             \E a \in {b \in LowerAttrs : b.mode = <<>>} :
                gi = [NoGi EXCEPT
                        !.attr = a, !.in_lens = in_lens, !.out_lens = out_lens,
                        !.vec_scale = [d \in 1..Len(in_lens) |->
                                         Rat(out_lens[d], in_lens[d])]]

(* lines 260-277 run on the lengths and scales parse hands over *)
GatherIndices ==
    /\ gi.status = "none"
    /\ gi.in_lens # <<>>
    /\ gi' = [gi EXCEPT !.status = "returned",
                        !.ind = gather_indices(gi.attr, gi.in_lens, gi.out_lens,
                                               gi.vec_scale)]
    /\ UNCHANGED <<graph, call, result, np>>

NextGather == Parse \/ GatherIndices

SpecGather == InitGather /\ [][NextGather]_vars

-----------------------------------------------------------------------------
(* The values the emitted operators compute, as flat row-major sequences   *)
(* of rationals; x is the content of the data argument.                    *)

NodeValue(g, k, vals, data_ref, x) ==
    LET n == g[k]
        in(j) == vals[n.inputs[j]]
        inner == Elements(Tail(g[n.inputs[1]].lens))
    IN  CASE k = data_ref -> x
          [] n.name = "@literal" ->
                IF n.fdata # <<>> THEN n.fdata
                ELSE [i \in 1..Len(n.idata) |-> RInt(n.idata[i])]
          [] n.name = "reshape" -> in(1)
          [] n.name = "gather" ->
                [i \in 1..Len(in(2)) |-> in(1)[in(2)[i][1] + 1]]
          [] n.name = "slice" ->
                SubSeq(in(1), n.iparams[2] * inner + 1, n.iparams[3] * inner)
          [] n.name = "sub" -> [i \in 1..Len(in(1)) |-> RSub(in(1)[i], in(2)[i])]
          [] n.name = "mul" -> [i \in 1..Len(in(1)) |-> RMul(in(1)[i], in(2)[i])]
          [] n.name = "add" -> [i \in 1..Len(in(1)) |-> RAdd(in(1)[i], in(2)[i])]
          [] OTHER -> <<>>

(* the values of nodes 1..k, in insertion order *)
RECURSIVE GraphValues(_, _, _, _)
GraphValues(g, k, data_ref, x) ==
    IF k = 0 THEN <<>>
    ELSE LET vals == GraphValues(g, k - 1, data_ref, x)
         IN  Append(vals, NodeValue(g, k, vals, data_ref, x))

-----------------------------------------------------------------------------
(* What the properties below speak about.                                  *)

Called == result.status # "none"
Threw(kind) == result.status = "threw" /\ result.err = kind
Returned == result.status = "returned"

(* the nodes the call added to the builder *)
Emitted == SubSeq(graph, result.before + 1, Len(graph))
NothingEmitted == Len(graph) = result.before

DataArg == graph[call.args[1]]
InputRank == Len(DataArg.lens)
DynamicInput == \E d \in DOMAIN DataArg.dyn : DataArg.dyn[d]

CoordAttr == call.attr.coordinate_transformation_mode
ModeAttr == call.attr.mode
TfCropAndResize == CoordAttr = <<"tf_crop_and_resize">>
BadMode == ModeAttr # <<>> /\ ModeAttr[1] \notin {"nearest", "linear"}
ExcludeOutsideSet == call.attr.exclude_outside = <<1>>
AttrsPass == ~TfCropAndResize /\ ~BadMode /\ ~ExcludeOutsideSet
LinearMode == ModeAttr = <<"linear">>
NearestMode == ModeAttr \in {<<>>, <<"nearest">>}

(* the deprecated scales attribute is present and non-empty *)
ScalesAttrGiven == call.attr.scales # <<>> /\ call.attr.scales[1] # <<>>

(* argument k can be the scales or sizes input *)
Eligible(k) ==
    /\ call.args[k] # call.args[1]
    /\ graph[call.args[k]].name # "undefined"
    /\ graph[call.args[k]].lens # <<>>
EligibleArgs == {k \in DOMAIN call.args : Eligible(k)}
FirstEligible == CHOOSE k \in EligibleArgs : \A j \in EligibleArgs : k <= j
FirstArg == graph[call.args[FirstEligible]]

(* the scales or sizes come from an argument that cannot be evaluated *)
NonConstantInput ==
    /\ ~ScalesAttrGiven
    /\ EligibleArgs # {}
    /\ ~FirstArg.evaluable
    /\ (FirstArg.type = "int64_type" \/ FirstArg.lens[1] = InputRank)

ResolutionErrors == {"MissingScaleOrSizeInput", "RankMismatch", "OutputRankMismatch"}

-----------------------------------------------------------------------------
(* C1: a parse call that ends in an error has added no instruction and no  *)
(* literal to the builder: the node set after the call is the one before.  *)
C1_FailureAtomicity == result.status = "threw" => NothingEmitted

(* C2: in linear mode, when the input shape is dynamic or the scales/sizes *)
(* input is not a compile-time constant, parse fails with                  *)
(* UnsupportedDynamicLinear and builds no subgraph (an error of the        *)
(* scale/size resolution, which runs first, may be reported instead).      *)
C2_DynamicLinearRejected ==
    (Called /\ AttrsPass /\ LinearMode /\ (DynamicInput \/ NonConstantInput))
    => /\ result.status = "threw"
       /\ result.err \in {"UnsupportedDynamicLinear"} \cup ResolutionErrors
       /\ NothingEmitted

(* C3: in nearest mode with a dynamic input shape or non-constant          *)
(* scales/sizes, a successful parse emits exactly one node and no literal: *)
(* a resize carrying nearest_mode and coordinate_transformation_mode,      *)
(* whose first input is the data argument and whose second input is an     *)
(* argument other than the data argument.                                  *)
C3_BranchAResizeNode ==
    (Returned /\ NearestMode /\ (DynamicInput \/ NonConstantInput))
    => /\ Len(Emitted) = 1
       /\ Emitted[1].name = "resize"
       /\ Emitted[1].sparams =
             <<IF call.attr.nearest_mode = <<>> THEN "round_prefer_floor"
               ELSE call.attr.nearest_mode[1],
               IF CoordAttr = <<>> THEN "half_pixel" ELSE CoordAttr[1]>>
       /\ Len(Emitted[1].inputs) = 2
       /\ Emitted[1].inputs[1] = call.args[1]
       /\ Emitted[1].inputs[2] \in Range(call.args) \ {call.args[1]}
       /\ result.ret = Len(graph)

(* C4: with coordinate_transformation_mode "tf_crop_and_resize" parse      *)
(* fails with UnsupportedCoordinateTransformMode, whatever the other       *)
(* attributes and the arguments are.                                       *)
C4_TfCropAlwaysRejected ==
    (Called /\ TfCropAndResize) => Threw("UnsupportedCoordinateTransformMode")

C4_Witness ==
    /\ Threw("UnsupportedCoordinateTransformMode")
    /\ TfCropAndResize /\ ExcludeOutsideSet /\ BadMode /\ ScalesAttrGiven

GraphBefore == SubSeq(graph, 1, result.before)

(* the call repeated on the same graph with the argument list cut after
   its first eligible argument *)
RunOnFirstEligible ==
    parse(GraphBefore, call.attr, SubSeq(call.args, 1, FirstEligible))

(* C6: when the attribute checks pass, parse fails with                    *)
(* MissingScaleOrSizeInput exactly when the scales attribute is absent or  *)
(* empty and every argument is the data argument, an "undefined"           *)
(* placeholder or of zero rank; otherwise only the first eligible argument *)
(* is consulted: the arguments after it do not change the outcome.         *)
C6_MissingIffNoEligible ==
    (Called /\ AttrsPass)
    => /\ Threw("MissingScaleOrSizeInput")
             <=> (~ScalesAttrGiven /\ EligibleArgs = {})
       /\ (~ScalesAttrGiven /\ EligibleArgs # {})
             => /\ RunOnFirstEligible.graph = graph
                /\ RunOnFirstEligible.err = result.err
                /\ RunOnFirstEligible.ret = result.ret

C6_Witness ==
    /\ Returned /\ AttrsPass /\ ~ScalesAttrGiven
    /\ Len(call.args) = 3 /\ EligibleArgs = {2, 3}
    /\ graph[call.args[2]] # graph[call.args[3]]
    /\ graph[call.args[3]].evaluable

(* C7: no compile-time lowering is performed with a scale vector or an     *)
(* output-length vector whose length differs from the input rank: constant *)
(* scales of another length (attribute or first eligible non-integer       *)
(* argument, also one whose leading dimension is not the rank) fail with   *)
(* RankMismatch, explicit sizes of another count with OutputRankMismatch,  *)
(* before any node is emitted.                                             *)
C7_RankChecked ==
    (Called /\ AttrsPass)
    => /\ (ScalesAttrGiven /\ Len(call.attr.scales[1]) # InputRank)
             => (Threw("RankMismatch") /\ NothingEmitted)
       /\ (/\ ~ScalesAttrGiven /\ EligibleArgs # {}
           /\ FirstArg.type # "int64_type"
           /\ \/ FirstArg.lens[1] # InputRank
              \/ FirstArg.evaluable /\ Len(FirstArg.fdata) # InputRank)
             => (Threw("RankMismatch") /\ NothingEmitted)
       /\ (/\ ~ScalesAttrGiven /\ EligibleArgs # {}
           /\ FirstArg.type = "int64_type"
           /\ FirstArg.evaluable /\ Len(FirstArg.idata) # InputRank)
             => (Threw("OutputRankMismatch") /\ NothingEmitted)
       /\ (Returned /\ Len(Emitted) > 1)
             => /\ Emitted[2].name = "@literal"
                /\ Len(Emitted[2].lens) = InputRank
                /\ IF ScalesAttrGiven
                   THEN Len(call.attr.scales[1]) = InputRank
                   ELSE /\ FirstArg.evaluable
                        /\ Len(FirstArg.idata \o FirstArg.fdata) = InputRank

C7_Witness ==
    /\ Threw("OutputRankMismatch") /\ AttrsPass /\ ~ScalesAttrGiven
    /\ FirstArg.type = "int64_type" /\ Len(FirstArg.idata) = InputRank + 1
    /\ LinearMode

-----------------------------------------------------------------------------
(* calc_neighbor_points.                                                   *)

NpRank == Len(np.vvv_ind)
NpElements == Len(np.vvv_ind[1][1])
NpCalled == np.status # "none"

(* x < the number of elements of a shape with these lengths, for x >= 0 *)
RECURSIVE Below(_, _)
Below(x, lens) ==
    IF lens = <<>> THEN x < 1
    ELSE Below(x \div lens[Len(lens)], SubSeq(lens, 1, Len(lens) - 1))

(* std::numeric_limits<int>::max() *)
IntMax == 2147483647

(* every offset into the shape given to calc_neighbor_points is at most IntMax *)
NpFitsInt == ~Below(IntMax, np.in_lens)

(* C8: for a rank r with 0 < r < 63, a static shape and a table whose      *)
(* entries lie in [0, in_len[d] - 1], calc_neighbor_points returns exactly *)
(* 2^r * m_elements offsets, each in [0, total_input_elements); for a rank *)
(* at or above the bit width it fails with DimensionOverflow.              *)
C8_NeighborOffsets ==
    NpCalled
    => /\ (NpRank < SizeTDigits - 1)
             => /\ np.status = "returned"
                /\ Len(np.vec_ind) = Pow2(NpRank) * NpElements
                /\ \A i \in DOMAIN np.vec_ind :
                      0 <= np.vec_ind[i] /\ Below(np.vec_ind[i], np.in_lens)
       /\ (NpRank >= SizeTDigits)
             => (np.status = "threw" /\ np.err = "DimensionOverflow")

(* the offset of corner v (0-based) and output element e (1-based) when     *)
(* dimension d (1-based) is given bit BitPos[d] of v                         *)
OffsetWithBits(v, e, BitPos) ==
    SumSeq([d \in 1..NpRank |->
              np.vvv_ind[d][((v \div Pow2(BitPos[d])) % 2) + 1][e]
                 * ProdSeq(SubSeq(np.in_lens, d + 1, NpRank))])

CornerBlocks(BitPos) ==
    /\ Len(np.vec_ind) = Pow2(NpRank) * NpElements
    /\ \A v \in 0..(Pow2(NpRank) - 1) : \A e \in 1..NpElements :
          np.vec_ind[v * NpElements + e] = OffsetWithBits(v, e, BitPos)

-----------------------------------------------------------------------------
(* The linear lowering.                                                    *)

InLens == ToStaticLens(DataArg, 1)
LinearLowered == Returned /\ LinearMode /\ Len(Emitted) > 1
CoordMode == IF CoordAttr = <<>> THEN "half_pixel" ELSE CoordAttr[1]

(* the scale vector the call resolved: the attribute, the scales argument  *)
(* or sizes / input lengths                                                *)
ScaleVector ==
    IF ScalesAttrGiven THEN call.attr.scales[1]
    ELSE IF FirstArg.type = "int64_type"
         THEN [d \in 1..InputRank |-> Rat(FirstArg.idata[d], InLens[d])]
         ELSE FirstArg.fdata

(* the output lengths of a linear lowering: those of the last node *)
LinearOutLens == graph[result.ret].lens
OutElements == Elements(LinearOutLens)

(* continuous coordinate, floor index, ceil index and delta of output      *)
(* element e (1-based) in dimension d                                      *)
Coord(d, e) ==
    idx_op(CoordMode, InLens[d], LinearOutLens[d],
           ((e - 1) \div ProdSeq(SubSeq(LinearOutLens, d + 1, InputRank)))
               % LinearOutLens[d],
           ScaleVector[d])
Clamp(d, i) == IF i < 0 THEN 0 ELSE IF i > InLens[d] - 1 THEN InLens[d] - 1 ELSE i
FloorIdx(d, e) == Clamp(d, RFloor(Coord(d, e)))
CeilIdx(d, e) == Clamp(d, RCeil(Coord(d, e)))
Delta(d, e) == RSub(Coord(d, e), RInt(FloorIdx(d, e)))

(* the flat offset of the corner of e that uses ceil in the dimensions of S *)
CornerOffset(S, e) ==
    SumSeq([d \in 1..InputRank |->
              (IF d \in S THEN CeilIdx(d, e) ELSE FloorIdx(d, e))
                 * ProdSeq(SubSeq(InLens, d + 1, InputRank))])

(* the sequence <<F(1), ..., F(n)>> *)
RECURSIVE SeqOf(_, _)
SeqOf(F(_), n) == IF n = 0 THEN <<>> ELSE Append(SeqOf(F, n - 1), F(n))

(* the dimensions whose bit (bit d - 1) is set in v *)
DimsOf(v) == {d \in 1..InputRank : (v \div Pow2(d - 1)) % 2 = 1}

(* the corner number whose set bits are the dimensions of S *)
MaskOf(S) == SumSeq([d \in 1..InputRank |-> IF d \in S THEN Pow2(d - 1) ELSE 0])

(* CornerOffset and Delta tabulated: offsets[v + 1][e], deltas[d][e] *)
OffsetTable ==
    SeqOf(LAMBDA v : SeqOf(LAMBDA e : CornerOffset(DimsOf(v - 1), e), OutElements),
          Pow2(InputRank))
DeltaValues ==
    SeqOf(LAMBDA d : SeqOf(LAMBDA e : Delta(d, e), OutElements), InputRank)

(* the weight of the corner using ceil in the dimensions of S, over the    *)
(* dimensions of D                                                         *)
RECURSIVE CornerWeight(_, _, _, _)
CornerWeight(D, S, e, deltas) ==
    IF D = {} THEN ROne
    ELSE LET d == CHOOSE d \in D : TRUE
         IN  RMul(IF d \in S THEN deltas[d][e] ELSE RSub(ROne, deltas[d][e]),
                  CornerWeight(D \ {d}, S, e, deltas))

RECURSIVE RSumOver(_, _, _)
RSumOver(F(_), Ss, acc) ==
    IF Ss = {} THEN acc
    ELSE LET S == CHOOSE S \in Ss : TRUE
         IN  RSumOver(F, Ss \ {S}, RAdd(acc, F(S)))

(* after i blend iterations the dimensions above InputRank - i are blended: *)
(* block w (0-based, a corner of the other dimensions), element e           *)
Blended(i, w, e, x, offsets, deltas) ==
    LET D == (InputRank - i + 1)..InputRank
        Term(T) == RMul(x[offsets[MaskOf(DimsOf(w) \cup T) + 1][e] + 1],
                        CornerWeight(D, T, e, deltas))
    IN  RSumOver(Term, SUBSET D, RZero)

(* the contents of the data argument tried: the unit vectors *)
UnitInputs ==
    {[k \in 1..Elements(InLens) |-> IF k = j THEN ROne ELSE RZero] :
        j \in 1..Elements(InLens)}

(* the i-th "add" node emitted by the call *)
AddNode(i) == result.before + 3 + 6 * i

(* C10: the linear lowering computes multilinear interpolation: blend      *)
(* iteration i (dimension rank - i + 1) pairs every element of the low     *)
(* half with the element of the high half of the same output element      *)
(* whose corner differs only in that dimension, and multiplies by that     *)
(* dimension's delta of the same output element; so the final value of     *)
(* output element e is the sum over the 2^rank corners of                  *)
(* input[corner offset] times the product over the dimensions of           *)
(* (delta[d][e] if the corner uses ceil in d, else 1 - delta[d][e]).       *)
C10_MultilinearInterpolation ==
    LinearLowered
    => /\ result.ret = AddNode(InputRank)
       /\ LET offsets == OffsetTable
              deltas == DeltaValues
          IN  \A x \in UnitInputs :
                 LET vals == GraphValues(graph, Len(graph), call.args[1], x)
                 IN  \A i \in 1..InputRank :
                        /\ graph[AddNode(i)].name = "add"
                        /\ Len(vals[AddNode(i)]) = Pow2(InputRank - i) * OutElements
                        /\ \A w \in 0..(Pow2(InputRank - i) - 1) :
                              \A e \in 1..OutElements :
                                 vals[AddNode(i)][w * OutElements + e]
                                    = Blended(i, w, e, x, offsets, deltas)

C10_Witness ==
    /\ LinearLowered /\ InputRank = MaxRank /\ ~DynamicInput
    /\ \A d \in 1..InputRank : InLens[d] > 1
    /\ \E e \in 1..OutElements :
          /\ \A d \in 1..InputRank :
                RLess(RZero, Delta(d, e)) /\ RLess(Delta(d, e), ROne)
          /\ \E d1, d2 \in 1..InputRank : Delta(d1, e) # Delta(d2, e)

-----------------------------------------------------------------------------
(* The nearest lowering.                                                   *)

(* nearest mode on a static input with compile-time scales or sizes *)
NearestLowered == Returned /\ NearestMode /\ ~DynamicInput /\ ~NonConstantInput

NearestModeName ==
    IF call.attr.nearest_mode = <<>> THEN "round_prefer_floor"
    ELSE call.attr.nearest_mode[1]

(* the output lengths: the sizes given, or input length times scale *)
NearestOutLens ==
    IF ~ScalesAttrGiven /\ FirstArg.type = "int64_type" THEN FirstArg.idata
    ELSE [d \in 1..InputRank |-> RFloor(RMul(RInt(InLens[d]), ScaleVector[d]))]

(* the flat source offset of output element o (1-based) *)
NearestEntry(o) ==
    SumSeq([d \in 1..InputRank |->
              nearest_op(NearestModeName, InLens[d],
                 idx_op(CoordMode, InLens[d], NearestOutLens[d],
                        ((o - 1) \div ProdSeq(SubSeq(NearestOutLens, d + 1, InputRank)))
                            % NearestOutLens[d],
                        ScaleVector[d]))
                 * ProdSeq(SubSeq(InLens, d + 1, InputRank))])

(* the three nodes of the nearest lowering and the entries of its literal *)
NearestNodes ==
    /\ Len(Emitted) = 3
    /\ result.ret = Len(graph)
    /\ Emitted[1].name = "reshape"
    /\ Emitted[1].inputs = <<call.args[1]>>
    /\ Emitted[1].iparams = <<Elements(InLens)>>
    /\ Emitted[2].name = "@literal"
    /\ Emitted[2].type = "int32_type"
    /\ Emitted[2].lens = NearestOutLens
    /\ Emitted[3].name = "gather"
    /\ Emitted[3].iparams = <<0>>
    /\ Emitted[3].inputs = <<result.before + 1, result.before + 2>>
    /\ Len(Emitted[2].idata) = Elements(NearestOutLens)
    /\ \A o \in DOMAIN Emitted[2].idata :
          /\ Emitted[2].idata[o] = NearestEntry(o)
          /\ 0 <= Emitted[2].idata[o]
          /\ Emitted[2].idata[o] < Elements(InLens)

(* C11: nearest mode on a static input with compile-time scales or sizes   *)
(* emits reshape(input, [total_input_elements]), one int literal of the    *)
(* output shape and gather(axis = 0) of the two; the literal entry of      *)
(* every output coordinate is in_s.index of the per-dimension indices      *)
(* nearest_op(in_len, idx_op(in_len, out_len, out_coord, scale)), and      *)
(* every entry e satisfies 0 <= e < total_input_elements.                  *)
C11_NearestGather ==
    /\ NearestLowered => NearestNodes
    /\ gi.status = "returned"
          => \A o \in DOMAIN gi.ind : 0 <= gi.ind[o] /\ Below(gi.ind[o], gi.in_lens)


-----------------------------------------------------------------------------
(* The shapes of the linear blend loop.                                    *)

(* the call is in linear mode and threw nothing: it went through the       *)
(* checks and into the static lowering                                     *)
LinearEntered == LinearMode /\ result.status # "none" /\ result.err = ""

(* the output lengths the call resolved: the sizes given, or input length  *)
(* times scale                                                             *)
ResolvedOutLens == NearestOutLens

(* the output lengths with the first one multiplied by 2^k *)
Lead(k) == [ResolvedOutLens EXCEPT ![1] = Pow2(k) * ResolvedOutLens[1]]

GatherNode == result.before + 3

(* the tensor the blend iteration i (0-based) starts from *)
CurrentNode(i) == IF i = 0 THEN GatherNode ELSE AddNode(i)

(* iteration i (0-based): the current tensor has leading dimension 2s, the *)
(* slices are [0, s) and [s, 2s) of it, the delta literal has the shape    *)
(* and the element count of one slice, and the sum has leading dimension s *)
BlendShapes(i) ==
    LET n == InputRank
        cur == CurrentNode(i)
        s == Pow2(n - i - 1) * ResolvedOutLens[1]
        ins_delta == graph[cur + 1]
        low == graph[cur + 2]
        hi == graph[cur + 3]
    IN  /\ graph[cur].lens = Lead(n - i)
        /\ graph[cur].lens[1] = 2 * s
        /\ low.name = "slice" /\ low.inputs = <<cur>> /\ low.iparams = <<0, 0, s>>
        /\ hi.name = "slice" /\ hi.inputs = <<cur>> /\ hi.iparams = <<0, s, 2 * s>>
        /\ low.lens = Lead(n - i - 1) /\ hi.lens = low.lens
        /\ ins_delta.name = "@literal" /\ ins_delta.lens = low.lens
        /\ Len(ins_delta.fdata) = Elements(low.lens)
        /\ graph[cur + 6].name = "add" /\ graph[cur + 6].lens = Lead(n - i - 1)

(* C12: every linear call that gets into the static lowering returns, the  *)
(* gathered tensor has leading dimension 2^rank * out_len[0], iteration i  *)
(* starts from leading dimension 2^(rank-i) * out_len[0], slices it into   *)
(* two equal halves [0, s) and [s, 2s) that cover it, its delta literal    *)
(* has as many elements as one slice, and after exactly rank iterations    *)
(* the returned tensor has the output shape.                               *)
C12_BlendLeadingDimension ==
    LinearEntered =>
       /\ Returned
       /\ Len(graph) = GatherNode + 6 * InputRank
       /\ graph[GatherNode].name = "gather"
       /\ graph[GatherNode].lens = Lead(InputRank)
       /\ \A i \in 0..(InputRank - 1) : BlendShapes(i)
       /\ result.ret = AddNode(InputRank)
       /\ graph[result.ret].lens = ResolvedOutLens


-----------------------------------------------------------------------------
(* The interpolation deltas.                                               *)

(* the delta literal of blend iteration i (0-based): the deltas of         *)
(* dimension InputRank - i, one copy per corner block                      *)
DeltaLiteral(i) == graph[CurrentNode(i) + 1].fdata

(* the output element (1-based) entry k of a delta literal belongs to *)
ElementOf(k) == ((k - 1) % OutElements) + 1

(* every entry of every delta literal is continuous_coord - floor_index of *)
(* its dimension and output element, and satisfies P(entry, d, e)          *)
DeltaEntries(P(_, _, _)) ==
    \A i \in 0..(InputRank - 1) :
       \A k \in DOMAIN DeltaLiteral(i) :
          /\ DeltaLiteral(i)[k] = Delta(InputRank - i, ElementOf(k))
          /\ P(DeltaLiteral(i)[k], InputRank - i, ElementOf(k))

InUnitInterval(v, d, e) == RLeq(RZero, v) /\ RLess(v, ROne)

(* below 0 only where the coordinate is below 0, and then floor and ceil   *)
(* index are both 0                                                        *)
InBorderInterval(v, d, e) ==
    /\ RLess(Rat(-1, 2), v) /\ RLess(v, ROne)
    /\ RLess(v, RZero) =>
          /\ RLess(Coord(d, e), RZero)
          /\ FloorIdx(d, e) = 0 /\ CeilIdx(d, e) = 0

(* C13 as stated: in linear mode, for every dimension d and output element *)
(* e of a compile-time lowering, delta[d][e] = continuous_coord -           *)
(* floor_index satisfies 0 <= delta[d][e] < 1, also at the borders.         *)
C13_DeltaInUnitInterval == LinearLowered => DeltaEntries(InUnitInterval)

(* C13 amended: delta[d][e] = continuous_coord - floor_index satisfies     *)
(* -1/2 < delta[d][e] < 1; it is negative exactly at a border where the    *)
(* coordinate transform yields a coordinate below 0, and there the floor   *)
(* and the ceil index are both 0.                                          *)
C13_DeltaBounds == LinearLowered => DeltaEntries(InBorderInterval)

(* a half_pixel upscaling: some delta literal holds a negative entry and   *)
(* a positive one                                                          *)
C13_Witness ==
    /\ LinearLowered /\ CoordMode = "half_pixel"
    /\ \E i \in 0..(InputRank - 1) :
          /\ \E k \in DOMAIN DeltaLiteral(i) : RLess(DeltaLiteral(i)[k], RZero)
          /\ \E k \in DOMAIN DeltaLiteral(i) : RLess(RZero, DeltaLiteral(i)[k])

====
